---- MODULE Spec2Model ----
(***************************************************************************)
(* Model of CoupledOscillatorNetwork (src/cpg_loconetwork.py): the gait,   *)
(* direction and turning configuration of a network of coupled Hopf        *)
(* oscillators, its reset and its discrete-time update.                    *)
(*                                                                         *)
(* Numbers.  Real quantities are fixed-point integers: Scale stands for    *)
(* 1.0.  Angles are integers in units of pi/(2n), so that pi, pi/2 and the *)
(* wave-gait step 2*pi/n are all exact: Pi(n) = 2n, TwoPi(n) = 4n.         *)
(*                                                                         *)
(* Calls.  Every method is an operator from the object (a record of the    *)
(* instance fields) to the object after the call; the field "raised" says  *)
(* that the call ended by raising RecursionError instead of returning.     *)
(* The mutual calls set_*_gait <-> _update_phase_relationships carry the   *)
(* depth of the Python call stack.                                         *)
(***************************************************************************)
EXTENDS Integers, Sequences, FiniteSets, TLC

\* ---------------------------------------------------------------- bounds
\* Largest number of oscillators a network is constructed with.
MaxN == 3
\* Depth of the interpreter's call stack at which RecursionError is raised.
RecursionLimit == 6
\* Largest wall-clock reading.
MaxClock == 1
\* Number of state-advancing ticks (dt # 0) in the life of a network.
MaxTicks == 1

\* ------------------------------------------------------ program constants
\* Fixed-point unit: Scale stands for the real number 1.0.
Scale == 100
\* amplitude=1.0, frequency=1.0, mu=1.0: the constructor's defaults.
BaseAmplitude == Scale
BaseFrequency == Scale
Mu == Scale
\* self.state[2*i] = 0.1
SeedX == 10
\* coupling_strength=1.0, the default of both gait setters.
DefaultCoupling == Scale
\* turning_factor * 0.5 and turning_factor * 0.3, in tenths.
AmpGain == 5
FreqGain == 3
\* 2 * np.pi in fixed point (6.28).
TwoPiFix == 628

\* ----------------------------------------------------------------- inputs
\* coupling_strength arguments tried (-1.0, 1.0 and 2.0).
CouplingInputs == {0 - DefaultCoupling, DefaultCoupling, 2 * DefaultCoupling}
\* turning_factor arguments tried (-0.5, 1.0, 1.5): below, inside, above [0,1].
FactorInputs == {0 - 50, 100, 150}
\* wall-clock seconds between two clock readings, and the explicit dt tried
\* (-0.1, 0 and 0.1).
ClockUnit == Scale \div 10
DtInputs == {0 - ClockUnit, 0, ClockUnit}
\* n_oscillators arguments tried.  A negative one is refused by np.zeros.
NInputs == 0 .. MaxN

VARIABLES
    n,                  \* self.n
    state,              \* self.state: [0..2n-1 -> Int], x at 2i, y at 2i+1
    coupling_weights,   \* self.coupling_weights
    phase_biases,       \* self.phase_biases
    frequencies,        \* self.frequencies
    amplitudes,         \* self.amplitudes
    current_gait,       \* self.current_gait
    direction_phase,    \* self.direction_phase: 0 or Pi(n)
    turning,            \* self.turning
    turning_direction,  \* self.turning_direction: "none" stands for None
    turning_factor,     \* self.turning_factor
    last_update_time,   \* self.last_update_time
    clock,              \* the wall-clock time of the latest construction,
                        \* reset or update (not a field: when it happened)
    outputs,            \* what lastOp returned: the x-values of an update(),
                        \* <<>> (None) of any other call
    lastOp,             \* the last call made on the object, with its arguments
    raised,             \* TRUE iff that call raised instead of returning
    roundTrip,          \* what lastOp came after: "direction" (set_backward(True)
                        \* before a set_backward(False)), "turn" (a turn before
                        \* stop_turning), "tick" (a tick before update(0)),
                        \* "backward" (direction_phase = pi before a gait
                        \* setter with reset_direction=True), else "none"
    ticks               \* state-advancing ticks since construction

vars == <<n, state, coupling_weights, phase_biases, frequencies, amplitudes,
          current_gait, direction_phase, turning, turning_direction,
          turning_factor, last_update_time, clock, outputs,
          lastOp, raised, roundTrip, ticks>>

\* ---------------------------------------------------------------- helpers
Idx(k) == 0 .. (k - 1)
\* The angle unit of a network without oscillators, which has no angle to
\* divide, is that of a network of one: pi is never 0.
Pi(k) == IF k = 0 THEN 2 ELSE 2 * k
TwoPi(k) == 2 * Pi(k)

Min(a, b) == IF a < b THEN a ELSE b
Max(a, b) == IF a > b THEN a ELSE b

\* The value that stands for a component that is not a finite number (nan or
\* +-inf): an integer no finite component of the model comes near.
NaN == 0 - Scale * Scale * Scale

\* np.all(np.isfinite(v)) of a vector v.
IsFinite(v) == \A c \in DOMAIN v : v[c] # NaN

\* np.zeros((n, n))
Zeros2(k) == [p \in Idx(k) \X Idx(k) |-> 0]

\* np.zeros(2n) with state[2*i] = 0.1
SeedState(k) == [c \in Idx(2 * k) |-> IF c % 2 = 0 THEN SeedX ELSE 0]

\* The object as one record of its instance fields.
Self ==
    [n |-> n, state |-> state, coupling_weights |-> coupling_weights,
     phase_biases |-> phase_biases, frequencies |-> frequencies,
     amplitudes |-> amplitudes, current_gait |-> current_gait,
     direction_phase |-> direction_phase, turning |-> turning,
     turning_direction |-> turning_direction,
     turning_factor |-> turning_factor,
     last_update_time |-> last_update_time, raised |-> FALSE]


\* ------------------------------------------------------------ gait setters
RECURSIVE set_tripod_gait(_, _, _, _)
RECURSIVE set_wave_gait(_, _, _, _)
RECURSIVE update_phase_relationships(_, _)

\* TripodBias as it would be with the two branches exchanged.
TripodBias_exchanged(k, i, j) == IF (i % 2) = (j % 2) THEN Pi(k) ELSE 0

\* The phase bias the tripod rule gives the pair (i, j), i # j.
TripodBias(k, i, j) == IF (i % 2) = (j % 2) THEN 0 ELSE Pi(k)

\* WaveBias as it would be with the difference taken the other way round.
WaveBias_reversed(k, i, j) == 4 * ((i - j) % k)

\* WaveBias as it would be without the reduction of j - i modulo n.
WaveBias_unreduced(k, i, j) == 4 * (j - i)

\* The phase bias the wave rule gives the pair (i, j), i # j:
\* (2*pi/n) * ((j - i) % n), and 2*pi/n is 4 angle units.
WaveBias(k, i, j) == 4 * ((j - i) % k)

\* The two nested loops of a gait setter: off-diagonal weights and biases.
\* Bias(k, i, j) is the gait's rule.
GaitWeights(k, c) ==
    [p \in Idx(k) \X Idx(k) |-> IF p[1] # p[2] THEN c ELSE 0]

TripodBiases(k) ==
    [p \in Idx(k) \X Idx(k) |->
        IF p[1] # p[2] THEN TripodBias(k, p[1], p[2]) ELSE 0]

WaveBiases(k) ==
    [p \in Idx(k) \X Idx(k) |->
        IF p[1] # p[2] THEN WaveBias(k, p[1], p[2]) ELSE 0]

\* set_tripod_gait as it would be if it also reseeded the oscillator state.
set_tripod_gait_reseeds(s, coupling_strength, reset_direction, d) ==
    IF d > RecursionLimit THEN [s EXCEPT !.raised = TRUE]
    ELSE
        LET s1 == [s EXCEPT !.current_gait = "tripod",
                            !.state = SeedState(s.n)]
            s2 == IF reset_direction
                  THEN [s1 EXCEPT !.direction_phase = 0] ELSE s1
            s3 == [s2 EXCEPT
                     !.coupling_weights = GaitWeights(s.n, coupling_strength),
                     !.phase_biases = TripodBiases(s.n)]
        IN  IF s3.direction_phase # 0
            THEN update_phase_relationships(s3, d + 1)
            ELSE s3

\* set_tripod_gait(coupling_strength, reset_direction), entered at call
\* depth d.  Entering a frame beyond the recursion limit raises.
set_tripod_gait(s, coupling_strength, reset_direction, d) ==
    IF d > RecursionLimit THEN [s EXCEPT !.raised = TRUE]
    ELSE
        LET s1 == [s EXCEPT !.current_gait = "tripod"]
            s2 == IF reset_direction
                  THEN [s1 EXCEPT !.direction_phase = 0] ELSE s1
            s3 == [s2 EXCEPT
                     !.coupling_weights = GaitWeights(s.n, coupling_strength),
                     !.phase_biases = TripodBiases(s.n)]
        IN  IF s3.direction_phase # 0
            THEN update_phase_relationships(s3, d + 1)
            ELSE s3

\* set_wave_gait as it would be if it also put the per-oscillator
\* amplitudes and frequencies back to their base values.
set_wave_gait_straightens(s, coupling_strength, reset_direction, d) ==
    IF d > RecursionLimit THEN [s EXCEPT !.raised = TRUE]
    ELSE
        LET s1 == [s EXCEPT !.current_gait = "wave",
                     !.amplitudes = [i \in Idx(s.n) |-> BaseAmplitude],
                     !.frequencies = [i \in Idx(s.n) |-> BaseFrequency]]
            s2 == IF reset_direction
                  THEN [s1 EXCEPT !.direction_phase = 0] ELSE s1
            s3 == [s2 EXCEPT
                     !.coupling_weights = GaitWeights(s.n, coupling_strength),
                     !.phase_biases = WaveBiases(s.n)]
        IN  IF s3.direction_phase # 0
            THEN update_phase_relationships(s3, d + 1)
            ELSE s3

\* set_wave_gait as it would be if it never reset the direction.
set_wave_gait_keeps_direction(s, coupling_strength, reset_direction, d) ==
    IF d > RecursionLimit THEN [s EXCEPT !.raised = TRUE]
    ELSE
        LET s1 == [s EXCEPT !.current_gait = "wave"]
            s3 == [s1 EXCEPT
                     !.coupling_weights = GaitWeights(s.n, coupling_strength),
                     !.phase_biases = WaveBiases(s.n)]
        IN  IF s3.direction_phase # 0
            THEN update_phase_relationships(s3, d + 1)
            ELSE s3

\* set_wave_gait(coupling_strength, reset_direction), entered at depth d.
set_wave_gait(s, coupling_strength, reset_direction, d) ==
    IF d > RecursionLimit THEN [s EXCEPT !.raised = TRUE]
    ELSE
        LET s1 == [s EXCEPT !.current_gait = "wave"]
            s2 == IF reset_direction
                  THEN [s1 EXCEPT !.direction_phase = 0] ELSE s1
            s3 == [s2 EXCEPT
                     !.coupling_weights = GaitWeights(s.n, coupling_strength),
                     !.phase_biases = WaveBiases(s.n)]
        IN  IF s3.direction_phase # 0
            THEN update_phase_relationships(s3, d + 1)
            ELSE s3

\* The direction loop: add direction_phase to every off-diagonal bias,
\* modulo 2*pi.
ShiftBiases(s) ==
    [p \in Idx(s.n) \X Idx(s.n) |->
        IF p[1] # p[2]
        THEN (s.phase_biases[p] + s.direction_phase) % TwoPi(s.n)
        ELSE s.phase_biases[p]]

\* _update_phase_relationships(), entered at depth d: re-set the current
\* gait with the default coupling strength and reset_direction=False, then
\* shift.  An exception raised by the inner call propagates: the shift is
\* not reached.
update_phase_relationships(s, d) ==
    IF d > RecursionLimit THEN [s EXCEPT !.raised = TRUE]
    ELSE
        LET s1 == IF s.current_gait = "tripod"
                  THEN set_tripod_gait(s, DefaultCoupling, FALSE, d + 1)
                  ELSE IF s.current_gait = "wave"
                  THEN set_wave_gait(s, DefaultCoupling, FALSE, d + 1)
                  ELSE s
        IN  IF s1.raised THEN s1
            ELSE IF s1.direction_phase # 0
            THEN [s1 EXCEPT !.phase_biases = ShiftBiases(s1)]
            ELSE s1

\* set_backward as it would be if it ignored its argument.
set_backward_ignores_argument(s, backward, d) ==
    update_phase_relationships([s EXCEPT !.direction_phase = Pi(s.n)], d + 1)

\* set_backward(backward), entered at depth d.
set_backward(s, backward, d) ==
    update_phase_relationships(
        [s EXCEPT !.direction_phase = IF backward THEN Pi(s.n) ELSE 0],
        d + 1)

\* set_forward(): set_backward(False), one frame deeper.
set_forward(s, d) == set_backward(s, FALSE, d + 1)


\* ----------------------------------------------------------------- turning
\* max(0.0, min(1.0, turning_factor))
ClampFactor(f) == Max(0, Min(Scale, f))

\* base * (1.0 - factor * gain) and base * (1.0 + factor * gain); gain is in
\* tenths, factor in units of 1/Scale.
Decreased(base, f, gain) == (base * (10 * Scale - gain * f)) \div (10 * Scale)
Increased(base, f, gain) == (base * (10 * Scale + gain * f)) \div (10 * Scale)

\* turn_right(turning_factor): even indices reduced, odd indices increased.
turn_right(s, factor) ==
    LET f == ClampFactor(factor)
    IN  [s EXCEPT
           !.turning = TRUE,
           !.turning_direction = "right",
           !.turning_factor = f,
           !.amplitudes = [i \in Idx(s.n) |->
               IF i % 2 = 0 THEN Decreased(BaseAmplitude, f, AmpGain)
                            ELSE Increased(BaseAmplitude, f, AmpGain)],
           !.frequencies = [i \in Idx(s.n) |->
               IF i % 2 = 0 THEN Decreased(BaseFrequency, f, FreqGain)
                            ELSE Increased(BaseFrequency, f, FreqGain)]]

\* turn_left as it would be with turn_right's assignment of the two sides.
turn_left_unmirrored(s, factor) ==
    LET f == ClampFactor(factor)
    IN  [s EXCEPT
           !.turning = TRUE,
           !.turning_direction = "left",
           !.turning_factor = f,
           !.amplitudes = [i \in Idx(s.n) |->
               IF i % 2 = 0 THEN Decreased(BaseAmplitude, f, AmpGain)
                            ELSE Increased(BaseAmplitude, f, AmpGain)],
           !.frequencies = [i \in Idx(s.n) |->
               IF i % 2 = 0 THEN Decreased(BaseFrequency, f, FreqGain)
                            ELSE Increased(BaseFrequency, f, FreqGain)]]

\* turn_left(turning_factor): even indices increased, odd indices reduced.
turn_left(s, factor) ==
    LET f == ClampFactor(factor)
    IN  [s EXCEPT
           !.turning = TRUE,
           !.turning_direction = "left",
           !.turning_factor = f,
           !.amplitudes = [i \in Idx(s.n) |->
               IF i % 2 = 0 THEN Increased(BaseAmplitude, f, AmpGain)
                            ELSE Decreased(BaseAmplitude, f, AmpGain)],
           !.frequencies = [i \in Idx(s.n) |->
               IF i % 2 = 0 THEN Increased(BaseFrequency, f, FreqGain)
                            ELSE Decreased(BaseFrequency, f, FreqGain)]]

\* stop_turning as it would be if it restored the amplitudes only.
stop_turning_keeps_frequencies(s) ==
    [s EXCEPT
       !.turning = FALSE,
       !.turning_direction = "none",
       !.turning_factor = 0,
       !.amplitudes = [i \in Idx(s.n) |-> BaseAmplitude]]

\* stop_turning as it would be if it also reseeded the oscillator state.
stop_turning_reseeds(s) ==
    [s EXCEPT
       !.turning = FALSE,
       !.turning_direction = "none",
       !.turning_factor = 0,
       !.state = SeedState(s.n),
       !.amplitudes = [i \in Idx(s.n) |-> BaseAmplitude],
       !.frequencies = [i \in Idx(s.n) |-> BaseFrequency]]

\* stop_turning()
stop_turning(s) ==
    [s EXCEPT
       !.turning = FALSE,
       !.turning_direction = "none",
       !.turning_factor = 0,
       !.amplitudes = [i \in Idx(s.n) |-> BaseAmplitude],
       !.frequencies = [i \in Idx(s.n) |-> BaseFrequency]]

\* ------------------------------------------------------------------- reset
\* reset as it would be if it left the turning state alone.
reset_keeps_turning(s, now) ==
    [s EXCEPT
       !.state = SeedState(s.n),
       !.last_update_time = now,
       !.amplitudes = [i \in Idx(s.n) |-> BaseAmplitude],
       !.frequencies = [i \in Idx(s.n) |-> BaseFrequency]]

\* reset as it would be if it ended, like __init__, with set_tripod_gait().
reset_regaits(s, now) ==
    set_tripod_gait(
        [s EXCEPT
           !.state = SeedState(s.n),
           !.last_update_time = now,
           !.amplitudes = [i \in Idx(s.n) |-> BaseAmplitude],
           !.frequencies = [i \in Idx(s.n) |-> BaseFrequency],
           !.turning = FALSE,
           !.turning_direction = "none",
           !.turning_factor = 0],
        DefaultCoupling, TRUE, 2)

\* reset as it would be if it cleared the turning fields but left the
\* per-oscillator amplitudes and frequencies as the turn set them.
reset_keeps_overrides(s, now) ==
    [s EXCEPT
       !.state = SeedState(s.n),
       !.last_update_time = now,
       !.turning = FALSE,
       !.turning_direction = "none",
       !.turning_factor = 0]

\* reset(), reading the wall clock as now.
reset(s, now) ==
    [s EXCEPT
       !.state = SeedState(s.n),
       !.last_update_time = now,
       !.amplitudes = [i \in Idx(s.n) |-> BaseAmplitude],
       !.frequencies = [i \in Idx(s.n) |-> BaseFrequency],
       !.turning = FALSE,
       !.turning_direction = "none",
       !.turning_factor = 0]


\* ---------------------------------------------------------------- dynamics
RECURSIVE Sum(_, _)
\* The sum of f[x] over x in S.
Sum(f, S) ==
    IF S = {} THEN 0
    ELSE LET x == CHOOSE y \in S : TRUE IN f[x] + Sum(f, S \ {x})

\* np.sin and np.cos of an angle a in [0, 2*pi) of a network of k
\* oscillators, in fixed point (Bhaskara's rational approximation, exact at
\* the multiples of pi/2).
HalfSin(a, k) ==
    (Scale * 16 * a * (Pi(k) - a)) \div (5 * Pi(k) * Pi(k) - 4 * a * (Pi(k) - a))
Sin(a, k) == IF a <= Pi(k) THEN HalfSin(a, k) ELSE 0 - HalfSin(a - Pi(k), k)
Cos(a, k) == Sin((a + Pi(k) \div 2) % TwoPi(k), k)

\* equations(state, t): the derivative of every component of st under the
\* object's coupling, phase, amplitude and frequency fields.
equations(s, st) ==
    [c \in Idx(2 * s.n) |->
        LET i == c \div 2
            x_i == st[2 * i]
            y_i == st[2 * i + 1]
            local_omega == (TwoPiFix * s.frequencies[i]) \div Scale
            local_amplitude == s.amplitudes[i]
            r_squared == (x_i * x_i + y_i * y_i) \div Scale
            dx_i == (Mu * (local_amplitude - r_squared) * x_i) \div (Scale * Scale)
                    - (local_omega * y_i) \div Scale
            dy_i == (Mu * (local_amplitude - r_squared) * y_i) \div (Scale * Scale)
                    + (local_omega * x_i) \div Scale
            Coupled == {j \in Idx(s.n) :
                          i # j /\ s.coupling_weights[<<i, j>>] # 0}
            term_x == [j \in Coupled |->
                LET pb == s.phase_biases[<<i, j>>]
                    ctx == (st[2 * j] * Cos(pb, s.n)
                            - st[2 * j + 1] * Sin(pb, s.n)) \div Scale
                IN  (s.coupling_weights[<<i, j>>] * (ctx - x_i)) \div Scale]
            term_y == [j \in Coupled |->
                LET pb == s.phase_biases[<<i, j>>]
                    cty == (st[2 * j] * Sin(pb, s.n)
                            + st[2 * j + 1] * Cos(pb, s.n)) \div Scale
                IN  (s.coupling_weights[<<i, j>>] * (cty - y_i)) \div Scale]
        IN  IF c % 2 = 0 THEN dx_i + Sum(term_x, Coupled)
                         ELSE dy_i + Sum(term_y, Coupled)]

\* odeint(self.equations, self.state, [0, dt])[-1]: the state advanced by
\* dt.  scipy's integrator is represented by one explicit step of the
\* derivative; for dt = 0 it returns its initial value.  odeint does not
\* raise when the integration breaks down: it warns and returns what it has,
\* which may be non-finite; breaks says that this integration broke down.  A
\* non-finite initial value gives a non-finite result.
odeint(s, dt, breaks) ==
    IF breaks \/ ~IsFinite(s.state)
    THEN [c \in Idx(2 * s.n) |-> NaN]
    ELSE LET d == equations(s, s.state)
         IN  [c \in Idx(2 * s.n) |-> s.state[c] + (d[c] * dt) \div Scale]

\* XValues as it would be if it read the y-components.
XValues_y(s) == [i \in 1 .. s.n |-> s.state[2 * (i - 1) + 1]]

\* The x-values update() returns: [state[2*i] for i in range(n)].
XValues(s) == [i \in 1 .. s.n |-> s.state[2 * (i - 1)]]

\* update as it would be if it integrated over at least one clock unit.
update_min_step(s, dt, breaks) ==
    [s EXCEPT !.state = odeint(s, IF dt = 0 THEN ClockUnit ELSE dt, breaks)]

\* update as it would be if a tick ended the turn: the amplitudes and
\* frequencies back at their base values.
update_straightens(s, dt, breaks) ==
    [s EXCEPT !.state = odeint(s, dt, breaks),
              !.amplitudes = [i \in Idx(s.n) |-> BaseAmplitude],
              !.frequencies = [i \in Idx(s.n) |-> BaseFrequency]]

\* update(dt), dt an explicit number.
update(s, dt, breaks) == [s EXCEPT !.state = odeint(s, dt, breaks)]

\* update(None): dt is the time since last_update_time, which becomes now.
update_realtime(s, now, breaks) ==
    [update(s, (now - s.last_update_time) * ClockUnit, breaks)
        EXCEPT !.last_update_time = now]

\* ------------------------------------------------------------ construction
\* __init__(n_oscillators) with the default amplitude, frequency and mu,
\* reading the wall clock as now; its last statement is set_tripod_gait().
init(k, now) ==
    set_tripod_gait(
        [n |-> k, state |-> SeedState(k),
         coupling_weights |-> Zeros2(k), phase_biases |-> Zeros2(k),
         frequencies |-> [i \in Idx(k) |-> BaseFrequency],
         amplitudes |-> [i \in Idx(k) |-> BaseAmplitude],
         current_gait |-> "tripod", direction_phase |-> 0,
         turning |-> FALSE, turning_direction |-> "none",
         turning_factor |-> 0, last_update_time |-> now, raised |-> FALSE],
        DefaultCoupling, TRUE, 2)


\* ------------------------------------------------------------------ actions
\* Store the object res a call produced, and record the call.
Commit(res, op, rt) ==
    /\ n' = res.n
    /\ state' = res.state
    /\ coupling_weights' = res.coupling_weights
    /\ phase_biases' = res.phase_biases
    /\ frequencies' = res.frequencies
    /\ amplitudes' = res.amplitudes
    /\ current_gait' = res.current_gait
    /\ direction_phase' = res.direction_phase
    /\ turning' = res.turning
    /\ turning_direction' = res.turning_direction
    /\ turning_factor' = res.turning_factor
    /\ last_update_time' = res.last_update_time
    /\ raised' = res.raised
    /\ lastOp' = op
    /\ roundTrip' = rt

\* The state after construction: CoupledOscillatorNetwork(n_oscillators=k).
Init ==
    \E k \in NInputs :
        LET res == init(k, 0)
        IN  /\ n = res.n
            /\ state = res.state
            /\ coupling_weights = res.coupling_weights
            /\ phase_biases = res.phase_biases
            /\ frequencies = res.frequencies
            /\ amplitudes = res.amplitudes
            /\ current_gait = res.current_gait
            /\ direction_phase = res.direction_phase
            /\ turning = res.turning
            /\ turning_direction = res.turning_direction
            /\ turning_factor = res.turning_factor
            /\ last_update_time = res.last_update_time
            /\ raised = res.raised
            /\ clock = 0
            /\ outputs = <<>>
            /\ lastOp = [name |-> "__init__"]
            /\ roundTrip = "none"
            /\ ticks = 0

SetTripodGait ==
    \E c \in CouplingInputs, r \in BOOLEAN :
        /\ Commit(set_tripod_gait(Self, c, r, 1),
                  [name |-> "set_tripod_gait", coupling_strength |-> c,
                   reset_direction |-> r],
                  IF r /\ direction_phase = Pi(n) THEN "backward" ELSE "none")
        /\ outputs' = <<>>
        /\ UNCHANGED <<clock, ticks>>

SetWaveGait ==
    \E c \in CouplingInputs, r \in BOOLEAN :
        /\ Commit(set_wave_gait(Self, c, r, 1),
                  [name |-> "set_wave_gait", coupling_strength |-> c,
                   reset_direction |-> r],
                  IF r /\ direction_phase = Pi(n) THEN "backward" ELSE "none")
        /\ outputs' = <<>>
        /\ UNCHANGED <<clock, ticks>>

\* TRUE iff the call before this one was set_backward(True).
AfterBackward == lastOp.name = "set_backward" /\ lastOp.backward

SetBackward ==
    \E b \in BOOLEAN :
        /\ Commit(set_backward(Self, b, 1),
                  [name |-> "set_backward", backward |-> b],
                  IF ~b /\ AfterBackward THEN "direction" ELSE "none")
        /\ outputs' = <<>>
        /\ UNCHANGED <<clock, ticks>>

SetForward ==
    /\ Commit(set_forward(Self, 1), [name |-> "set_forward"],
              IF AfterBackward THEN "direction" ELSE "none")
    /\ outputs' = <<>>
    /\ UNCHANGED <<clock, ticks>>

TurnRight ==
    \E f \in FactorInputs :
        /\ Commit(turn_right(Self, f),
                  [name |-> "turn_right", turning_factor |-> f], "none")
        /\ outputs' = <<>>
        /\ UNCHANGED <<clock, ticks>>

TurnLeft ==
    \E f \in FactorInputs :
        /\ Commit(turn_left(Self, f),
                  [name |-> "turn_left", turning_factor |-> f], "none")
        /\ outputs' = <<>>
        /\ UNCHANGED <<clock, ticks>>

StopTurning ==
    /\ Commit(stop_turning(Self), [name |-> "stop_turning"],
              IF lastOp.name \in {"turn_left", "turn_right"}
              THEN "turn" ELSE "none")
    /\ outputs' = <<>>
    /\ UNCHANGED <<clock, ticks>>

\* reset() reads the wall clock (time.time()), which may have been set back
\* since the latest reading.
Reset ==
    \E now \in 0 .. MaxClock :
        /\ Commit(reset(Self, now), [name |-> "reset"], "none")
        /\ clock' = now
        /\ outputs' = <<>>
        /\ UNCHANGED ticks

TickOps == {"update", "update_realtime"}

\* What odeint returned to the tick that stored res.
Integrated(res) == IF IsFinite(res.state) THEN "finite" ELSE "nonfinite"

\* update(dt) with an explicit dt, called when the wall clock shows now.  The
\* call does not read the clock.  An integration over no time cannot break
\* down.
Update ==
    \E dt \in DtInputs, now \in clock .. MaxClock, breaks \in BOOLEAN :
        /\ dt # 0 => ticks < MaxTicks
        /\ breaks => dt # 0
        /\ LET res == update(Self, dt, breaks)
           IN  /\ Commit(res, [name |-> "update", dt |-> dt,
                               integrated |-> Integrated(res)],
                         IF dt = 0 /\ lastOp.name \in TickOps
                         THEN "tick" ELSE "none")
               /\ outputs' = XValues(res)
        /\ ticks' = IF dt # 0 THEN ticks + 1 ELSE ticks
        /\ clock' = now

\* update() with dt omitted: the wall clock is read, and may have been set
\* back.  The recorded dt is the one the call computed.
UpdateRealtime ==
    \E now \in 0 .. MaxClock, breaks \in BOOLEAN :
        /\ now # last_update_time => ticks < MaxTicks
        /\ breaks => now # last_update_time
        /\ LET res == update_realtime(Self, now, breaks)
           IN  /\ Commit(res, [name |-> "update_realtime",
                               dt |-> (now - last_update_time) * ClockUnit,
                               integrated |-> Integrated(res)],
                         "none")
               /\ outputs' = XValues(res)
        /\ clock' = now
        /\ ticks' = IF now # last_update_time THEN ticks + 1 ELSE ticks

Next ==
    \/ SetTripodGait
    \/ SetWaveGait
    \/ SetBackward
    \/ SetForward
    \/ TurnRight
    \/ TurnLeft
    \/ StopTurning
    \/ Reset
    \/ Update
    \/ UpdateRealtime

Spec == Init /\ [][Next]_vars

\* Every variable has the shape the code gives it.
TypeOK ==
    /\ n \in NInputs
    /\ DOMAIN state = Idx(2 * n)
    /\ DOMAIN coupling_weights = Idx(n) \X Idx(n)
    /\ DOMAIN phase_biases = Idx(n) \X Idx(n)
    /\ current_gait \in {"tripod", "wave"}
    /\ direction_phase \in {0, Pi(n)}
    /\ turning \in BOOLEAN
    /\ turning_direction \in {"none", "left", "right"}
    /\ turning_factor \in 0 .. Scale
    /\ last_update_time \in 0 .. MaxClock
    /\ clock \in 0 .. MaxClock
    /\ last_update_time <= clock
    /\ raised \in BOOLEAN
    /\ ticks \in 0 .. MaxTicks


\* ------------------------------------------------------------- properties
GaitOps == {"set_tripod_gait", "set_wave_gait"}
DirectionOps == {"set_backward", "set_forward"}
TurnOps == {"turn_left", "turn_right"}

\* The gait a gait setter records.
ModeOf(op) == IF op.name = "set_tripod_gait" THEN "tripod" ELSE "wave"

\* The phase-bias matrix gait g produces with no direction offset.
BaseBiases(g, k) == IF g = "tripod" THEN TripodBiases(k) ELSE WaveBiases(k)

\* The same matrix with pi added to every off-diagonal entry, modulo 2*pi.
BackwardBiases(g, k) ==
    [p \in Idx(k) \X Idx(k) |->
        IF p[1] # p[2] THEN (BaseBiases(g, k)[p] + Pi(k)) % TwoPi(k) ELSE 0]

AtBase ==
    /\ \A i \in Idx(n) : amplitudes[i] = BaseAmplitude
    /\ \A i \in Idx(n) : frequencies[i] = BaseFrequency

TurnInactive ==
    /\ turning = FALSE
    /\ turning_direction = "none"
    /\ turning_factor = 0

\* C1: after set_backward(True), from any configuration, direction_phase is
\* pi and every off-diagonal phase bias is the current gait's base bias plus
\* pi modulo 2*pi, the diagonal being 0.
C1_BackwardShiftsBiases ==
    (lastOp.name = "set_backward" /\ lastOp.backward)
        => /\ direction_phase = Pi(n)
           /\ phase_biases = BackwardBiases(current_gait, n)

\* C2: every call of set_backward, set_forward, set_tripod_gait and
\* set_wave_gait returns: the chain of calls between the gait setters and
\* _update_phase_relationships never exceeds the call stack.
C2_DirectionAndGaitCallsReturn ==
    lastOp.name \in GaitOps \cup DirectionOps => ~raised

\* C3: a gait setter called with reset_direction=False while direction_phase
\* is pi leaves direction_phase at pi, records its gait, and leaves every
\* off-diagonal phase bias at the new gait's base bias plus pi modulo 2*pi.
C3_DirectionSurvivesGaitSwitch ==
    [][(/\ direction_phase = Pi(n)
        /\ lastOp'.name \in GaitOps
        /\ ~lastOp'.reset_direction)
          => /\ direction_phase' = Pi(n)
             /\ current_gait' = ModeOf(lastOp')
             /\ phase_biases' = BackwardBiases(ModeOf(lastOp'), n)]_vars

\* C4: set_backward(True) followed by set_backward(False) (or set_forward())
\* leaves direction_phase 0 and the phase-bias matrix equal to the matrix the
\* current gait produces with no direction offset.
C4_DirectionRoundTrip ==
    roundTrip = "direction"
        => /\ direction_phase = 0
           /\ phase_biases = BaseBiases(current_gait, n)

C4_Witness ==
    /\ roundTrip = "direction"
    /\ current_gait = "wave"
    /\ n >= 3

\* C5: set_backward and set_forward leave the coupling matrix as the last
\* gait setter call built it, whatever coupling strength that call was given.
C5_DirectionKeepsCoupling ==
    [][lastOp'.name \in DirectionOps
          => coupling_weights' = coupling_weights]_vars

\* C6: a turn followed by stop_turning() leaves turning False, the turning
\* direction None, the turning factor 0, and every amplitude and frequency
\* at its base value.
C6_TurnRoundTrip == roundTrip = "turn" => TurnInactive /\ AtBase

C6_Witness ==
    /\ roundTrip = "turn"
    /\ n >= 2

\* C7: the gait setters, set_backward and set_forward leave turning,
\* turning_direction, turning_factor and every amplitude and frequency
\* unchanged.
C7_GaitAndDirectionKeepTurning ==
    [][lastOp'.name \in GaitOps \cup DirectionOps
          => UNCHANGED <<turning, turning_direction, turning_factor,
                         amplitudes, frequencies>>]_vars

C7_Witness ==
    /\ lastOp.name = "set_wave_gait"
    /\ turning
    /\ turning_factor > 0
    /\ n >= 2
    /\ amplitudes[0] # amplitudes[1]

\* C8: turn_left, turn_right and stop_turning leave the current gait,
\* direction_phase, the coupling matrix, the phase-bias matrix and the
\* oscillator state unchanged.
C8_TurningKeepsGaitAndDirection ==
    [][lastOp'.name \in TurnOps \cup {"stop_turning"}
          => UNCHANGED <<current_gait, direction_phase, coupling_weights,
                         phase_biases, state>>]_vars

C8_Witness ==
    /\ lastOp.name = "stop_turning"
    /\ current_gait = "wave"
    /\ direction_phase = Pi(n)
    /\ state # SeedState(n)

\* C9: a gait setter, with any coupling strength and either value of
\* reset_direction, leaves the state vector as it was.
C9_GaitSwitchKeepsState ==
    [][lastOp'.name \in GaitOps => state' = state]_vars

C9_Witness ==
    /\ lastOp.name = "set_tripod_gait"
    /\ state # SeedState(n)
    /\ ~raised

\* C10: after reset(), whatever came before, every oscillator is at
\* (0.1, 0), every amplitude and frequency is at its base value, and turning
\* is inactive.
C10_ResetReseeds ==
    lastOp.name = "reset"
        => /\ state = SeedState(n)
           /\ AtBase
           /\ TurnInactive

C10_Witness ==
    /\ lastOp.name = "reset"
    /\ ticks > 0
    /\ current_gait = "wave"

\* C11: reset() leaves the current gait, direction_phase, the coupling
\* matrix and the phase-bias matrix as they were.
C11_ResetKeepsGaitAndDirection ==
    [][lastOp'.name = "reset"
          => UNCHANGED <<current_gait, direction_phase, coupling_weights,
                         phase_biases>>]_vars

C11_Witness ==
    /\ lastOp.name = "reset"
    /\ current_gait = "wave"
    /\ direction_phase = Pi(n)
    /\ n >= 3

\* C12: update(0) leaves the state vector as it was, and when the call
\* before it was a tick it returns what that tick returned.
C12_ZeroDtIsNoOp ==
    [][(lastOp'.name = "update" /\ lastOp'.dt = 0)
          => /\ state' = state
             /\ lastOp.name \in TickOps => outputs' = outputs]_vars

C12_Witness ==
    /\ roundTrip = "tick"
    /\ state # SeedState(n)
    /\ n >= 2

\* C13: update(dt) with dt < 0 raises and leaves the state vector and every
\* other field as they were.
C13_NegativeDtRejected ==
    [][(lastOp'.name = "update" /\ lastOp'.dt < 0)
          => /\ raised'
             /\ UNCHANGED <<n, state, coupling_weights, phase_biases,
                            frequencies, amplitudes, current_gait,
                            direction_phase, turning, turning_direction,
                            turning_factor, last_update_time>>]_vars

\* C14: no network with fewer than one oscillator exists.
C14_NoEmptyNetwork == n >= 1

\* C15: a gait setter called with reset_direction=True records its gait,
\* leaves direction_phase 0 even when it was pi, and leaves the phase-bias
\* matrix equal to the unshifted base matrix of its gait.
C15_DefaultGaitSwitchResetsDirection ==
    (lastOp.name \in GaitOps /\ lastOp.reset_direction)
        => /\ current_gait = ModeOf(lastOp)
           /\ direction_phase = 0
           /\ phase_biases = BaseBiases(ModeOf(lastOp), n)

C15_Witness ==
    /\ roundTrip = "backward"
    /\ lastOp.name = "set_wave_gait"
    /\ n >= 3

\* C16: a tick returns exactly n values, and the value at index i is the
\* x-component state[2i] of the state that tick stored.
C16_OutputsAreXComponents ==
    lastOp.name \in TickOps
        => /\ DOMAIN outputs = 1 .. n
           /\ \A i \in Idx(n) : outputs[i + 1] = state[2 * i]

C16_Witness ==
    /\ lastOp.name = "update_realtime"
    /\ n >= 3
    /\ \E i \in Idx(n) : outputs[i + 1] # SeedX
    /\ \E i \in Idx(n) : state[2 * i + 1] # state[2 * i]

\* C17: a tick with dt omitted that directly follows a tick (explicit dt or
\* not) or the construction uses the wall-clock time elapsed since then.
C17_RealtimeDtSincePrecedingTick ==
    [][(lastOp'.name = "update_realtime"
        /\ lastOp.name \in TickOps \cup {"__init__"})
          => lastOp'.dt = (clock' - clock) * ClockUnit]_vars

\* The factor a turn records: its argument clamped into [0, 1].
ClampedInto01(f) == IF f < 0 THEN 0 ELSE IF f > Scale THEN Scale ELSE f

\* TRUE iff index i is on the side the turn to d slows down: the even
\* indices under "right", the odd ones under "left".
SlowSide(d, i) == (d = "right") <=> (i % 2 = 0)

\* base * (1 - 0.5 f) or base * (1 + 0.5 f), f in units of 1/Scale.
TurnAmplitude(d, f, i) ==
    IF SlowSide(d, i) THEN BaseAmplitude - (BaseAmplitude * 5 * f) \div (10 * Scale)
                      ELSE BaseAmplitude + (BaseAmplitude * 5 * f) \div (10 * Scale)

\* base * (1 - 0.3 f) or base * (1 + 0.3 f).
TurnFrequency(d, f, i) ==
    IF SlowSide(d, i) THEN BaseFrequency - (BaseFrequency * 3 * f) \div (10 * Scale)
                      ELSE BaseFrequency + (BaseFrequency * 3 * f) \div (10 * Scale)

\* C18: after turn_right(f) or turn_left(f), whatever came before, turning
\* is on, the direction is the one called, the factor is f clamped into
\* [0, 1], and every amplitude and frequency follows the turn formula for
\* that direction, that clamped factor and the parity of its index.
C18_TurnSetsOverrides ==
    lastOp.name \in TurnOps
        => LET d == IF lastOp.name = "turn_right" THEN "right" ELSE "left"
               f == ClampedInto01(lastOp.turning_factor)
           IN  /\ turning = TRUE
               /\ turning_direction = d
               /\ turning_factor = f
               /\ \A i \in Idx(n) : amplitudes[i] = TurnAmplitude(d, f, i)
               /\ \A i \in Idx(n) : frequencies[i] = TurnFrequency(d, f, i)

C18_Witness ==
    /\ lastOp.name = "turn_left"
    /\ lastOp.turning_factor > Scale
    /\ n >= 2

\* C19: after set_tripod_gait(c) with direction forward, every pair i # j
\* has phase bias 0 when i and j have the same parity and pi otherwise and
\* coupling weight c, and both diagonals are 0.
C19_TripodRule ==
    (lastOp.name = "set_tripod_gait" /\ direction_phase = 0)
        => \A i, j \in Idx(n) :
              IF i = j
              THEN /\ phase_biases[<<i, j>>] = 0
                   /\ coupling_weights[<<i, j>>] = 0
              ELSE /\ phase_biases[<<i, j>>] =
                         (IF (i + j) % 2 = 0 THEN 0 ELSE Pi(n))
                   /\ coupling_weights[<<i, j>>] = lastOp.coupling_strength

C19_Witness ==
    /\ lastOp.name = "set_tripod_gait"
    /\ lastOp.coupling_strength # DefaultCoupling
    /\ direction_phase = 0
    /\ n >= 3

\* C20: after set_wave_gait(c) with direction forward, every pair i # j has
\* phase bias (2*pi/n) * ((j - i) mod n), so that the biases of (i, j) and
\* (j, i) add up to 2*pi, and coupling weight c, and both diagonals are 0.
C20_WaveRule ==
    (lastOp.name = "set_wave_gait" /\ direction_phase = 0)
        => \A i, j \in Idx(n) :
              IF i = j
              THEN /\ phase_biases[<<i, j>>] = 0
                   /\ coupling_weights[<<i, j>>] = 0
              ELSE /\ n * phase_biases[<<i, j>>] = TwoPi(n) * ((j - i) % n)
                   /\ phase_biases[<<i, j>>] + phase_biases[<<j, i>>]
                         = TwoPi(n)
                   /\ coupling_weights[<<i, j>>] = lastOp.coupling_strength

C20_Witness ==
    /\ lastOp.name = "set_wave_gait"
    /\ lastOp.coupling_strength # DefaultCoupling
    /\ direction_phase = 0
    /\ n >= 3

\* C22: in every state, direction_phase is 0 or pi and every off-diagonal
\* phase bias is the base bias of the recorded gait plus direction_phase,
\* modulo 2*pi.
C22_DirectionPhaseConsistent ==
    /\ direction_phase \in {0, Pi(n)}
    /\ \A i, j \in Idx(n) :
          i # j => phase_biases[<<i, j>>] =
                     (BaseBiases(current_gait, n)[<<i, j>>] + direction_phase)
                        % TwoPi(n)

\* C23: in every state the coupling matrix is n by n, its diagonal is 0 and
\* every off-diagonal entry is at least 0, whatever coupling strengths the
\* gait setters were given.
C23_CouplingNonNegative ==
    /\ DOMAIN coupling_weights = Idx(n) \X Idx(n)
    /\ \A i, j \in Idx(n) :
          IF i = j THEN coupling_weights[<<i, j>>] = 0
                   ELSE coupling_weights[<<i, j>>] >= 0

\* C24: in every state, for either gait and either direction, every entry
\* of the phase-bias matrix is at least 0 and less than 2*pi, and the
\* diagonal is 0.
C24_PhaseBiasesInRange ==
    \A i, j \in Idx(n) :
        /\ phase_biases[<<i, j>>] >= 0
        /\ phase_biases[<<i, j>>] < TwoPi(n)
        /\ i = j => phase_biases[<<i, j>>] = 0

C24_Witness ==
    /\ current_gait = "wave"
    /\ direction_phase = Pi(n)
    /\ n >= 3
    /\ \E i, j \in Idx(n) : phase_biases[<<i, j>>] > Pi(n)

\* C25: in every state, if turning is on then turning_direction is left or
\* right and every amplitude and frequency is what the turn formula gives
\* for turning_direction, turning_factor and the parity of its index; if
\* turning is off then turning_direction is None and every amplitude and
\* frequency is at its base value.
C25_TurningFieldsDescribeOverrides ==
    IF turning
    THEN /\ turning_direction \in {"left", "right"}
         /\ \A i \in Idx(n) :
               /\ amplitudes[i] =
                     TurnAmplitude(turning_direction, turning_factor, i)
               /\ frequencies[i] =
                     TurnFrequency(turning_direction, turning_factor, i)
    ELSE /\ turning_direction = "none"
         /\ AtBase

C25_Witness ==
    /\ turning
    /\ turning_direction = "left"
    /\ turning_factor > 0
    /\ n >= 2
    /\ amplitudes[0] > amplitudes[1]
    /\ lastOp.name \in DirectionOps
    /\ raised

\* C26: a gait, direction or turn call that raises leaves the current gait,
\* direction_phase, the coupling matrix, the phase-bias matrix, the turning
\* fields and every amplitude and frequency as they were before the call.
C26_NoPartialApplication ==
    [][(lastOp'.name \in GaitOps \cup DirectionOps \cup TurnOps /\ raised')
          => UNCHANGED <<current_gait, direction_phase, coupling_weights,
                         phase_biases, turning, turning_direction,
                         turning_factor, amplitudes, frequencies>>]_vars

\* C27: a tick, with dt given or omitted, leaves the current gait,
\* direction_phase, the coupling matrix, the phase-bias matrix, the turning
\* fields and every amplitude and frequency unchanged; and the only calls
\* that change an amplitude or a frequency are turn_left, turn_right,
\* stop_turning and reset.
C27_TickKeepsConfiguration ==
    [][/\ lastOp'.name \in TickOps
          => UNCHANGED <<n, current_gait, direction_phase, coupling_weights,
                         phase_biases, turning, turning_direction,
                         turning_factor, amplitudes, frequencies>>
       /\ (amplitudes' # amplitudes \/ frequencies' # frequencies)
          => lastOp'.name \in TurnOps \cup {"stop_turning", "reset"}]_vars

C27_Witness ==
    /\ lastOp.name = "update"
    /\ lastOp.dt > 0
    /\ state # SeedState(n)
    /\ turning_direction = "right"
    /\ turning_factor > 0
    /\ current_gait = "wave"
    /\ n >= 2

\* C28: a tick with dt omitted that reads a wall-clock time earlier than
\* last_update_time raises, and leaves the state vector as it was.
C28_ClockRollbackRejected ==
    [][(lastOp'.name = "update_realtime" /\ clock' < last_update_time)
          => /\ raised'
             /\ state' = state]_vars

\* C29: a tick whose integration gave a non-finite vector raises, and no
\* state vector or returned output ever has a non-finite component.
C29_NonFiniteSurfaced ==
    /\ IsFinite(state)
    /\ lastOp.name \in TickOps
          => /\ IsFinite(outputs)
             /\ lastOp.integrated = "nonfinite" => raised

====
